---- MODULE Spec2Model ----
(***************************************************************************)
(* Model of bodies/hammer.py: the Hammer body generator.                   *)
(*                                                                         *)
(* Numbers.  Lengths, masses and friction coefficients are integers that   *)
(* count twentieths (0.05), so 0.1 is 2, 0.2 is 4, 0.4 is 8 and 1.0 is 20; *)
(* the part generators return multiples of 0.1, which makes 0.5 * v exact. *)
(* Angles are integers that count quarter turns modulo 4, so pi/2 is 1 and *)
(* every rotation matrix has entries in {-1, 0, 1}.                        *)
(*                                                                         *)
(* Text.  A text is a sequence of tokens (one token per character or per   *)
(* fixed word), so that the length of a rendered number depends on its     *)
(* sign and its number of digits, as it does in the program.               *)
(***************************************************************************)
EXTENDS Integers, Sequences, FiniteSets, TLC

\* ------------------------------------------------------------------------
\* Configuration constants (hammer.py:17-35)
\* ------------------------------------------------------------------------

LATERAL_FRICTION_RANGE == <<4, 20>>

SPINNING_FRICTION_RANGE == <<4, 20>>

INERTIA_FRICTION_RANGE == <<4, 20>>

HANDLE_CONFIG ==
    [mass_range |-> <<10, 20>>,
     size_range |-> << <<2, 2>>, <<4, 4>>, <<20, 20>> >>,
     lateral_friction_range |-> LATERAL_FRICTION_RANGE,
     spinning_friction_range |-> SPINNING_FRICTION_RANGE,
     inertia_friction_range |-> INERTIA_FRICTION_RANGE]

HEAD_CONFIG ==
    [mass_range |-> <<10, 20>>,
     size_range |-> << <<2, 2>>, <<4, 4>>, <<20, 20>> >>,
     lateral_friction_range |-> LATERAL_FRICTION_RANGE,
     spinning_friction_range |-> SPINNING_FRICTION_RANGE,
     inertia_friction_range |-> INERTIA_FRICTION_RANGE]

\* 0.5 * np.pi, in quarter turns.
HalfPi == 1

\* 0.5 * v for a length v.
Half(v) == v \div 2

\* ------------------------------------------------------------------------
\* Vectors, matrices and the rotation of utils.transformations
\* ------------------------------------------------------------------------

Angles == 0 .. 3

Cos(q) == CASE q % 4 = 0 -> 1 [] q % 4 = 1 -> 0 [] q % 4 = 2 -> -1 [] OTHER -> 0

Sin(q) == CASE q % 4 = 0 -> 0 [] q % 4 = 1 -> 1 [] q % 4 = 2 -> 0 [] OTHER -> -1

Dot3(u, v) == u[1] * v[1] + u[2] * v[2] + u[3] * v[3]

Column(m, j) == <<m[1][j], m[2][j], m[3][j]>>

\* numpy's matrix.dot(vector)
MatVec(m, v) == <<Dot3(m[1], v), Dot3(m[2], v), Dot3(m[3], v)>>

MatMul(a, b) ==
    [i \in 1 .. 3 |-> [j \in 1 .. 3 |-> Dot3(a[i], Column(b, j))]]

VecAdd(u, v) == <<u[1] + v[1], u[2] + v[2], u[3] + v[3]>>

RotX(q) == << <<1, 0, 0>>, <<0, Cos(q), -Sin(q)>>, <<0, Sin(q), Cos(q)>> >>

RotY(q) == << <<Cos(q), 0, Sin(q)>>, <<0, 1, 0>>, <<-Sin(q), 0, Cos(q)>> >>

RotZ(q) == << <<Cos(q), -Sin(q), 0>>, <<Sin(q), Cos(q), 0>>, <<0, 0, 1>> >>

\* The 3x3 rotation of Euler angles about the static axes x (roll), y (pitch)
\* and z (yaw), in that order.
matrix3_from_euler(roll, pitch, yaw) ==
    MatMul(RotZ(yaw), MatMul(RotY(pitch), RotX(roll)))

\* A transform that forgets the translation.
transform_point_rotation_only(point, rotation, translation) ==
    MatVec(matrix3_from_euler(rotation[1], rotation[2], rotation[3]), point)

\* A transform that translates before it rotates.
transform_point_translate_first(point, rotation, translation) ==
    MatVec(matrix3_from_euler(rotation[1], rotation[2], rotation[3]),
           VecAdd(point, translation))

\* hammer.py:38-54
transform_point(point, rotation, translation) ==
    LET roll == rotation[1]
        pitch == rotation[2]
        yaw == rotation[3]
        rotation_matrix == matrix3_from_euler(roll, pitch, yaw)
    IN  VecAdd(MatVec(rotation_matrix, point), translation)

\* ------------------------------------------------------------------------
\* Text: rendered numbers, description fragments, the template
\* ------------------------------------------------------------------------

Digit(d) == <<"0", "1", "2", "3", "4", "5", "6", "7", "8", "9">>[d + 1]

RECURSIVE DecNat(_)
\* The decimal digits of a natural number.
DecNat(n) ==
    IF n < 10 THEN <<Digit(n)>> ELSE DecNat(n \div 10) \o <<Digit(n % 10)>>

\* A number as text: a sign when negative, then its digits.
Dec(n) == IF n < 0 THEN <<"-">> \o DecNat(-n) ELSE DecNat(n)

\* The fields a description fragment renders, in order.
FragmentFields ==
    <<"x", "y", "z", "roll", "pitch", "yaw", "size_x", "size_y", "size_z">>

RECURSIVE RenderFields(_, _)
RenderFields(data, fields) ==
    IF fields = <<>> THEN <<>>
    ELSE <<" ">> \o Dec(data[Head(fields)]) \o RenderFields(data, Tail(fields))

\* Whether a Part Data has every key the fragment reads.
Convertible(data) ==
    \A i \in 1 .. Len(FragmentFields) : FragmentFields[i] \in DOMAIN data

\* Link.convert_data_to_urdf of links/link.py: the text fragment of a part.
convert_data_to_urdf(generator, data) ==
    <<"<link", data.name, generator.kind>>
        \o RenderFields(data, FragmentFields) \o <<"/>">>

\* The slots str.format fills in templates/hammer.xml.
Slots == {"{name}", "{handle_link}", "{head_link}", "{handle_name}", "{head_name}"}

\* templates/hammer.xml
TemplateText ==
    <<"<robot", "{name}", ">", "{handle_link}", "{head_link}",
      "<joint", "{handle_name}", "{head_name}", "/>", "</robot>">>

\* A template with a slot that generate does not fill.
BadTemplateText ==
    <<"<robot", "{name}", ">", "{handle_link}", "{head_link}", "{tail_link}",
      "<joint", "{handle_name}", "{head_name}", "/>", "</robot>">>

IsSlot(tok) == tok \in Slots \cup {"{tail_link}"}

\* Whether str.format finds a keyword for every slot of the template.
Formattable(template) ==
    \A i \in 1 .. Len(template) : IsSlot(template[i]) => template[i] \in Slots

RECURSIVE Format(_, _)
\* str.format: each slot replaced by the text given for it.
Format(template, args) ==
    IF template = <<>> THEN <<>>
    ELSE (IF IsSlot(Head(template)) THEN args[Head(template)]
          ELSE <<Head(template)>>) \o Format(Tail(template), args)

\* os.path.join(path, '%s.urdf' % (self.name))
UrdfFilename(path, name) == <<path, name, ".urdf">>

\* A write of text at offset 0 of a file holding old: the bytes beyond the text stay.
Overlay(old, text) ==
    IF Len(old) <= Len(text) THEN text
    ELSE text \o SubSeq(old, Len(text) + 1, Len(old))

IsPrefix(s, t) == Len(s) <= Len(t) /\ SubSeq(t, 1, Len(s)) = s

\* ------------------------------------------------------------------------
\* Part generators (links/link.py, links/scad_link.py) and what they return
\* ------------------------------------------------------------------------

ScadCubeLink(name, config) == [kind |-> "cube", name |-> name, config |-> config]

ScadCylinderLink(name, config) ==
    [kind |-> "cylinder", name |-> name, config |-> config]

ScadPolygonLink(name, config) ==
    [kind |-> "polygon", name |-> name, config |-> config]

Link(name, obj_paths, config) ==
    [kind |-> "mesh", name |-> name, config |-> config, obj_paths |-> obj_paths]

\* A Part Data as a part generator returns it.
PartData(name, center, euler, size) ==
    [name |-> name, x |-> center[1], y |-> center[2], z |-> center[3],
     roll |-> euler[1], pitch |-> euler[2], yaw |-> euler[3],
     size_x |-> size[1], size_y |-> size[2], size_z |-> size[3]]

\* A Part Data that lacks the key size_z.
PartDataNoSizeZ(name, center, euler, size) ==
    [name |-> name, x |-> center[1], y |-> center[2], z |-> center[3],
     roll |-> euler[1], pitch |-> euler[2], yaw |-> euler[3],
     size_x |-> size[1], size_y |-> size[2]]

\* Handles a generator may return: size_z 0.4 at the origin, size_z 1.0 off
\* the origin and turned.
HandleSamples ==
    {PartData("handle", <<0, 0, 0>>, <<0, 0, 0>>, <<2, 4, 8>>),
     PartData("handle", <<2, 0, -4>>, <<0, 0, 2>>, <<2, 4, 20>>)}

\* Heads a generator may return.
HeadSamples ==
    {PartData("head", <<0, 0, 0>>, <<0, 0, 0>>, <<2, 4, 20>>),
     PartData("head", <<2, 4, 6>>, <<0, 3, 1>>, <<4, 2, 4>>)}

\* Returned data that a later step cannot use.
BrokenHandleSamples ==
    {PartDataNoSizeZ("handle", <<0, 0, 0>>, <<0, 0, 0>>, <<2, 4, 8>>)}

BrokenHeadSamples ==
    {PartDataNoSizeZ("head", <<0, 0, 0>>, <<0, 0, 0>>, <<2, 4, 20>>)}

\* ------------------------------------------------------------------------
\* State
\* ------------------------------------------------------------------------

Callers == {1, 2}

\* The most generate calls one caller makes.
MaxCalls == 2

\* The output directory every call is given, and the body name.
OutDir == "out"

BodyName == "hammer"

\* The obj_paths argument: None, or a list of mesh files.
NoObjPaths == [is_none |-> TRUE, paths |-> <<>>]

MeshObjPaths == [is_none |-> FALSE, paths |-> <<"mesh.obj">>]

VARIABLES
    template_file,  \* templates/hammer.xml: whether it can be read, and its text
    hammer,         \* per caller: the attributes of its Hammer object
    pc,             \* per caller: where it is in __init__ / generate
    locals,         \* per caller: the local variables of its running generate
    exc,            \* per caller: the exception that ended its call, or "none"
    returned,       \* per caller: what the part generators returned in this call
    files,          \* description files on disk, by file name
    meshes,         \* mesh files on disk, by output directory and part name
    calls,          \* per caller: generate calls returned so far
    probe           \* a point, a rotation and a translation given to
                    \* transform_point, and what it returned

vars == <<probe, template_file, hammer, pc, locals, exc, returned, files, meshes, calls>>

NoObject == [exists |-> FALSE]

NoFile == [exists |-> FALSE, content |-> <<>>]

NoneReturned == [handle |-> {}, head |-> {}]

Origin == <<0, 0, 0>>

NoProbe ==
    [point |-> Origin, rotation |-> Origin, translation |-> Origin,
     applied |-> FALSE, result |-> Origin, at_origin |-> Origin,
     unrotated |-> Origin]

Filenames == {UrdfFilename(OutDir, BodyName)}

Templates == {TemplateText, BadTemplateText}

\* The state before any constructor runs: the template file holds one of the
\* given texts and is readable or not; a probe is one of the given ones.
InitWith(templates, readable, probes) ==
    /\ template_file \in [readable : readable, text : templates]
    /\ hammer = [c \in Callers |-> NoObject]
    /\ pc = [c \in Callers |-> "noobj"]
    /\ locals = [c \in Callers |-> [path |-> OutDir]]
    /\ exc = [c \in Callers |-> "none"]
    /\ returned = [c \in Callers |-> NoneReturned]
    /\ files = [f \in Filenames |-> NoFile]
    /\ meshes = {}
    /\ calls = [c \in Callers |-> 0]
    /\ probe \in probes

Init == InitWith(Templates, BOOLEAN, {NoProbe})

\* ------------------------------------------------------------------------
\* Hammer.__init__
\* ------------------------------------------------------------------------

\* The generator lists __init__ builds (hammer.py:75-100).
HandleGenerators(obj_paths) ==
    IF obj_paths.is_none
    THEN <<ScadCubeLink("handle", HANDLE_CONFIG),
           ScadCylinderLink("handle", HANDLE_CONFIG),
           ScadPolygonLink("handle", HANDLE_CONFIG)>>
    ELSE <<Link("handle", obj_paths.paths, HANDLE_CONFIG)>>

HeadGenerators(obj_paths) ==
    IF obj_paths.is_none
    THEN <<ScadCubeLink("head", HEAD_CONFIG),
           ScadCylinderLink("head", HEAD_CONFIG),
           ScadPolygonLink("head", HEAD_CONFIG)>>
    ELSE <<Link("head", obj_paths.paths, HEAD_CONFIG)>>

\* An __init__ that sets the generators, the flag and the name before it reads
\* the template.
HammerInit_attributes_first(tfile, name, obj_paths, random_flip) ==
    IF tfile.readable
    THEN [self |-> [exists |-> TRUE,
                    template |-> tfile.text,
                    handle_generators |-> HandleGenerators(obj_paths),
                    head_generators |-> HeadGenerators(obj_paths),
                    random_flip |-> random_flip,
                    name |-> name],
          raised |-> "none"]
    ELSE [self |-> [exists |-> TRUE,
                    handle_generators |-> HandleGenerators(obj_paths),
                    head_generators |-> HeadGenerators(obj_paths),
                    random_flip |-> random_flip,
                    name |-> name],
          raised |-> "IOError@72"]

\* Hammer.__init__ (hammer.py:63-104): the attributes of the object it leaves
\* and the exception it raises, if any.  open() raises at line 72, before any
\* attribute is assigned.
HammerInit(tfile, name, obj_paths, random_flip) ==
    IF tfile.readable
    THEN [self |-> [exists |-> TRUE,
                    template |-> tfile.text,
                    handle_generators |-> HandleGenerators(obj_paths),
                    head_generators |-> HeadGenerators(obj_paths),
                    random_flip |-> random_flip,
                    name |-> name],
          raised |-> "none"]
    ELSE [self |-> NoObject, raised |-> "IOError@72"]

\* h = Hammer(name, obj_paths, random_flip)
Construct(c, obj_paths, random_flip) ==
    /\ pc[c] = "noobj"
    /\ LET r == HammerInit(template_file, BodyName, obj_paths, random_flip)
       IN  /\ hammer' = [hammer EXCEPT ![c] = r.self]
           /\ exc' = [exc EXCEPT ![c] = r.raised]
           /\ pc' = [pc EXCEPT
                         ![c] = IF r.raised = "none" THEN "idle" ELSE "ctor_failed"]
    /\ UNCHANGED <<probe, template_file, locals, returned, files, meshes, calls>>

\* Client code that assigns the public attributes handle_generators and
\* head_generators of a constructed Hammer between calls.
Reconfigure(c, handle_generators, head_generators) ==
    /\ pc[c] = "idle"
    /\ hammer' = [hammer EXCEPT ![c].handle_generators = handle_generators,
                                ![c].head_generators = head_generators]
    /\ hammer'[c] # hammer[c]
    /\ UNCHANGED <<probe, template_file, pc, locals, exc, returned, files, meshes, calls>>

\* ------------------------------------------------------------------------
\* Hammer.generate
\* ------------------------------------------------------------------------

\* An uncaught exception ends the call: its frame is gone.
Raise(c, e) ==
    /\ pc' = [pc EXCEPT ![c] = "failed"]
    /\ exc' = [exc EXCEPT ![c] = e]
    /\ locals' = [locals EXCEPT ![c] = [path |-> OutDir]]
    /\ returned' = [returned EXCEPT ![c] = NoneReturned]

\* A choice that falls back to a cube generator when the list is empty.
choice_with_default(seq) ==
    IF seq = <<>> THEN {ScadCubeLink("part", HANDLE_CONFIG)}
    ELSE {seq[i] : i \in 1 .. Len(seq)}

\* random.choice(seq): the values it may return; none when seq is empty
\* (IndexError).
choice(seq) == {seq[i] : i \in 1 .. Len(seq)}

\* hammer.py:112-113
Select(c) ==
    /\ pc[c] = "idle"
    /\ calls[c] < MaxCalls
    /\ LET self == hammer[c]
       IN  IF choice(self.handle_generators) = {}
           THEN Raise(c, "IndexError@112") /\ UNCHANGED <<files, meshes>>
           ELSE IF choice(self.head_generators) = {}
           THEN Raise(c, "IndexError@113") /\ UNCHANGED <<files, meshes>>
           ELSE \E hg \in choice(self.handle_generators),
                   dg \in choice(self.head_generators) :
                    /\ locals' = [locals EXCEPT ![c] =
                           @ @@ [handle_generator |-> hg, head_generator |-> dg]]
                    /\ pc' = [pc EXCEPT ![c] = "selected"]
                    /\ UNCHANGED <<exc, returned, files, meshes>>
    /\ UNCHANGED <<probe, template_file, hammer, calls>>

\* The mesh file a part generator writes into the output directory.
MeshFile(path, generator) == <<path, generator.name>>

\* hammer.py:116: handle_generator.generate(path) samples, writes its mesh and
\* returns a Part Data, or fails before or after the mesh is written.
GenerateHandle(c, samples) ==
    /\ pc[c] = "selected"
    /\ LET mesh == MeshFile(locals[c].path, locals[c].handle_generator)
       IN  \/ \E d \in samples :
                /\ meshes' = meshes \cup {mesh}
                /\ locals' = [locals EXCEPT ![c] = @ @@ [handle_data |-> d]]
                /\ returned' = [returned EXCEPT ![c].handle = {d}]
                /\ pc' = [pc EXCEPT ![c] = "have_handle"]
                /\ exc' = exc
           \/ \E written \in BOOLEAN :
                /\ meshes' = IF written THEN meshes \cup {mesh} ELSE meshes
                /\ Raise(c, "IOError@116")
    /\ UNCHANGED <<probe, template_file, hammer, files, calls>>

\* hammer.py:117
GenerateHead(c, samples) ==
    /\ pc[c] = "have_handle"
    /\ LET mesh == MeshFile(locals[c].path, locals[c].head_generator)
       IN  \/ \E d \in samples :
                /\ meshes' = meshes \cup {mesh}
                /\ locals' = [locals EXCEPT ![c] = @ @@ [head_data |-> d]]
                /\ returned' = [returned EXCEPT ![c].head = {d}]
                /\ pc' = [pc EXCEPT ![c] = "have_head"]
                /\ exc' = exc
           \/ \E written \in BOOLEAN :
                /\ meshes' = IF written THEN meshes \cup {mesh} ELSE meshes
                /\ Raise(c, "IOError@117")
    /\ UNCHANGED <<probe, template_file, hammer, files, calls>>

\* A sampler that places the head by the head's own size.
sample_head_transformation_by_head(handle_data, head_data) ==
    <<<<HalfPi, 0, 0>>, <<0, 0, Half(head_data.size_z)>>>>

\* Hammer.sample_head_transformation (hammer.py:151-166): <<rotation,
\* translation>> of the orthogonal T-shape.
sample_head_transformation(handle_data, head_data) ==
    LET rotation == <<HalfPi, 0, 0>>
        translation == <<0, 0, Half(handle_data.size_z)>>
    IN  <<rotation, translation>>

\* An assignment that writes the pose into the handle's data.
AssignPose_to_handle(handle_data, head_data, center, rotation) ==
    [handle |-> [handle_data EXCEPT !.x = center[1], !.y = center[2],
                                    !.z = center[3], !.roll = rotation[1],
                                    !.pitch = rotation[2], !.yaw = rotation[3]],
     head |-> head_data]

\* hammer.py:124-129: the six assignments into head_data.
AssignPose(handle_data, head_data, center, rotation) ==
    [handle |-> handle_data,
     head |-> [head_data EXCEPT !.x = center[1], !.y = center[2],
                                !.z = center[3], !.roll = rotation[1],
                                !.pitch = rotation[2], !.yaw = rotation[3]]]

\* A flip that mirrors the head along the y axis when the flag is set.
RandomFlip_mirrors(random_flip, parts) ==
    IF random_flip
    THEN [parts EXCEPT !.head.y = -parts.head.y]
    ELSE parts

\* hammer.py:131-133: "if self.random_flip: pass".
RandomFlip(random_flip, parts) == IF random_flip THEN parts ELSE parts

\* hammer.py:120-133.  sample_head_transformation raises KeyError (line 164)
\* when the handle's data has no size_z.
PlaceHead(c) ==
    /\ pc[c] = "have_head"
    /\ LET self == hammer[c]
           handle_data == locals[c].handle_data
           head_data == locals[c].head_data
       IN  IF "size_z" \notin DOMAIN handle_data
           THEN Raise(c, "KeyError@164")
           ELSE LET pose == sample_head_transformation(handle_data, head_data)
                    rotation == pose[1]
                    transition == pose[2]
                    center0 == <<head_data.x, head_data.y, head_data.z>>
                    center == transform_point(center0, rotation, transition)
                    parts == RandomFlip(self.random_flip,
                                 AssignPose(handle_data, head_data, center, rotation))
                IN  /\ locals' = [locals EXCEPT ![c] =
                           [@ EXCEPT !.handle_data = parts.handle,
                                     !.head_data = parts.head]
                           @@ [rotation |-> rotation, transition |-> transition,
                               center |-> center]]
                    /\ pc' = [pc EXCEPT ![c] = "placed"]
                    /\ UNCHANGED <<exc, returned>>
    /\ UNCHANGED <<probe, template_file, hammer, files, meshes, calls>>

\* The keywords of self.template.format (hammer.py:138-144).
FormatArgs(name, handle_urdf, head_urdf, handle_data, head_data) ==
    [tok \in Slots |->
        CASE tok = "{name}" -> <<name>>
          [] tok = "{handle_link}" -> handle_urdf
          [] tok = "{head_link}" -> head_urdf
          [] tok = "{handle_name}" -> <<handle_data.name>>
          [] OTHER -> <<head_data.name>>]

\* The description text of a body: both fragments in the template.
ComposeUrdf(self, handle_generator, head_generator, handle_data, head_data) ==
    Format(self.template,
           FormatArgs(self.name,
                      convert_data_to_urdf(handle_generator, handle_data),
                      convert_data_to_urdf(head_generator, head_data),
                      handle_data, head_data))

\* The file name of the description and a fresh, empty file under it.
TruncatedFiles(c) ==
    [files EXCEPT ![UrdfFilename(locals[c].path, hammer[c].name)] =
                      [exists |-> TRUE, content |-> <<>>]]

\* A generate that opens the description file before it converts the parts.
Compose_opens_first(c) ==
    /\ pc[c] = "placed"
    /\ files' = TruncatedFiles(c)
    /\ LET self == hammer[c]
           l == locals[c]
       IN  IF ~Convertible(l.handle_data)
           THEN Raise(c, "KeyError@136")
           ELSE IF ~Convertible(l.head_data)
           THEN Raise(c, "KeyError@137")
           ELSE IF ~Formattable(self.template)
           THEN Raise(c, "KeyError@138")
           ELSE /\ locals' = [locals EXCEPT ![c] = @ @@
                       [handle_urdf |->
                            convert_data_to_urdf(l.handle_generator, l.handle_data),
                        head_urdf |->
                            convert_data_to_urdf(l.head_generator, l.head_data),
                        urdf |-> ComposeUrdf(self, l.handle_generator,
                                     l.head_generator, l.handle_data, l.head_data)]]
                /\ pc' = [pc EXCEPT ![c] = "composed"]
                /\ UNCHANGED <<exc, returned>>
    /\ UNCHANGED <<probe, template_file, hammer, meshes, calls>>

\* hammer.py:136-144: both fragments, then the template.  A conversion raises
\* KeyError when the data lacks a key, str.format when a slot has no keyword.
Compose(c) ==
    /\ pc[c] = "placed"
    /\ LET self == hammer[c]
           l == locals[c]
       IN  IF ~Convertible(l.handle_data)
           THEN Raise(c, "KeyError@136")
           ELSE IF ~Convertible(l.head_data)
           THEN Raise(c, "KeyError@137")
           ELSE IF ~Formattable(self.template)
           THEN Raise(c, "KeyError@138")
           ELSE /\ locals' = [locals EXCEPT ![c] = @ @@
                       [handle_urdf |->
                            convert_data_to_urdf(l.handle_generator, l.handle_data),
                        head_urdf |->
                            convert_data_to_urdf(l.head_generator, l.head_data),
                        urdf |-> ComposeUrdf(self, l.handle_generator,
                                     l.head_generator, l.handle_data, l.head_data)]]
                /\ pc' = [pc EXCEPT ![c] = "composed"]
                /\ UNCHANGED <<exc, returned>>
    /\ UNCHANGED <<probe, template_file, hammer, files, meshes, calls>>

\* An open that keeps what the file holds (mode 'r+' on an existing file).
OpenForWrite_keeps(file) == [exists |-> TRUE, content |-> file.content]

\* open(urdf_filename, 'w'): the file is created or truncated; the handle
\* writes from offset 0.
OpenForWrite(file) == [exists |-> TRUE, content |-> <<>>]

\* hammer.py:147-148.  open raises when the directory is missing or may not be
\* written.
OpenFile(c) ==
    /\ pc[c] = "composed"
    /\ LET urdf_filename == UrdfFilename(locals[c].path, hammer[c].name)
       IN  \/ /\ files' = [files EXCEPT
                               ![urdf_filename] = OpenForWrite(files[urdf_filename])]
              /\ locals' = [locals EXCEPT ![c] =
                                @ @@ [urdf_filename |-> urdf_filename]]
              /\ pc' = [pc EXCEPT ![c] = "opened"]
              /\ UNCHANGED <<exc, returned>>
           \/ /\ Raise(c, "IOError@148")
              /\ UNCHANGED files
    /\ UNCHANGED <<probe, template_file, hammer, meshes, calls>>

\* A write that appends to what the file holds.
FlushAtStart_appends(old, text) == old \o text

\* f.write(urdf) and the close that ends the with block: the buffered text goes
\* to the file at the handle's offset, 0.
FlushAtStart(old, text) == Overlay(old, text)

\* hammer.py:149
WriteFile(c) ==
    /\ pc[c] = "opened"
    /\ LET f == locals[c].urdf_filename
       IN  files' = [files EXCEPT ![f].content = FlushAtStart(@, locals[c].urdf)]
    /\ pc' = [pc EXCEPT ![c] = "done"]
    /\ UNCHANGED <<probe, template_file, hammer, locals, exc, returned, meshes, calls>>

\* generate returns None; its locals are gone.
Return(c) ==
    /\ pc[c] = "done"
    /\ pc' = [pc EXCEPT ![c] = "idle"]
    /\ locals' = [locals EXCEPT ![c] = [path |-> OutDir]]
    /\ returned' = [returned EXCEPT ![c] = NoneReturned]
    /\ calls' = [calls EXCEPT ![c] = @ + 1]
    /\ UNCHANGED <<probe, template_file, hammer, exc, files, meshes>>

\* ------------------------------------------------------------------------
\* Specifications
\* ------------------------------------------------------------------------

\* One caller, every generator variant, every sample.
Next ==
    \/ \E op \in {NoObjPaths, MeshObjPaths}, flip \in BOOLEAN : Construct(1, op, flip)
    \/ Select(1)
    \/ GenerateHandle(1, HandleSamples \cup BrokenHandleSamples)
    \/ GenerateHead(1, HeadSamples \cup BrokenHeadSamples)
    \/ PlaceHead(1)
    \/ Compose(1)
    \/ OpenFile(1)
    \/ WriteFile(1)
    \/ Return(1)

Spec == Init /\ [][Next]_vars

\* Two callers, each with its own Hammer built from mesh files under the same
\* name, running generate on the same directory at the same time.
InitConcurrent == InitWith({TemplateText}, {TRUE}, {NoProbe})

NextConcurrent ==
    \E c \in Callers :
        \/ \E flip \in BOOLEAN : Construct(c, MeshObjPaths, flip)
        \/ Select(c)
        \/ GenerateHandle(c, HandleSamples)
        \/ GenerateHead(c, HeadSamples)
        \/ PlaceHead(c)
        \/ Compose(c)
        \/ OpenFile(c)
        \/ WriteFile(c)
        \/ Return(c)

SpecConcurrent == InitConcurrent /\ [][NextConcurrent]_vars

\* One caller whose client also assigns the generator lists between calls,
\* to any list of at most one generator.
NextConfigured ==
    \/ Next
    \/ \E hgs \in {<<>>, <<ScadCubeLink("handle", HANDLE_CONFIG)>>},
          dgs \in {<<>>, <<ScadCylinderLink("head", HEAD_CONFIG)>>} :
            Reconfigure(1, hgs, dgs)

SpecConfigured == Init /\ [][NextConfigured]_vars

\* The largest coordinate of a probed point.
MaxCoord == 1

Coords == (0 - MaxCoord) .. MaxCoord

Points == {<<x, y, z>> : x \in Coords, y \in Coords, z \in Coords}

Rotations == {<<r, p, y>> : r \in Angles, p \in Angles, y \in Angles}

Translations == {<<x, y, z>> : x \in {0, 3}, y \in {0, -2}, z \in {0, 5}}

\* transform_point alone: any point, any rotation, any translation.
InitProbe ==
    InitWith({TemplateText}, {TRUE},
             {[NoProbe EXCEPT !.point = p, !.rotation = r, !.translation = t] :
                  p \in Points, r \in Rotations, t \in Translations})

\* transform_point called on the probe, on the origin under the probe's
\* rotation and translation, and on the probe's point under the identity.
ApplyTransform ==
    /\ ~probe.applied
    /\ probe' = [probe EXCEPT
           !.applied = TRUE,
           !.result = transform_point(probe.point, probe.rotation, probe.translation),
           !.at_origin = transform_point(Origin, probe.rotation, probe.translation),
           !.unrotated = transform_point(probe.point, <<0, 0, 0>>, <<0, 0, 0>>)]
    /\ UNCHANGED <<template_file, hammer, pc, locals, exc, returned, files, meshes,
                   calls>>

NextProbe == ApplyTransform

SpecProbe == InitProbe /\ [][NextProbe]_vars

\* ------------------------------------------------------------------------
\* Properties
\* ------------------------------------------------------------------------

TheFile == files[UrdfFilename(OutDir, BodyName)]

\* The positions of generate at which the head has been placed.
Placed == {"placed", "composed", "opened", "done"}

\* The positions of generate at which the description text has been composed.
Composed == {"composed", "opened", "done"}

\* The positions of generate before the description file is opened.
BeforeOpen == {"idle", "selected", "have_handle", "have_head", "placed", "composed"}

PoseFields == {"x", "y", "z", "roll", "pitch", "yaw"}

CenterOf(data) == <<data.x, data.y, data.z>>

EulerOf(data) == <<data.roll, data.pitch, data.yaw>>

\* C1: once generate has placed the head, the head's Part Data holds the center
\* R(roll,pitch,yaw) . (sampled center) + translation and the orientation
\* (roll,pitch,yaw), for the rotation and translation the sampler returned, and
\* the head fragment of the description is rendered from exactly that data; a
\* handle of size_z 0.4 (8) and a head sampled at the origin give the center
\* (0, 0, 0.2) (that is <<0, 0, 4>>) and the orientation (pi/2, 0, 0).
C1_HeadPose ==
    \A c \in Callers :
        pc[c] \in Placed =>
            \A h0 \in returned[c].handle, d0 \in returned[c].head :
                LET l == locals[c]
                    R == matrix3_from_euler(l.rotation[1], l.rotation[2], l.rotation[3])
                    want == VecAdd(MatVec(R, CenterOf(d0)), l.transition)
                IN  /\ CenterOf(l.head_data) = want
                    /\ EulerOf(l.head_data) = l.rotation
                    /\ (h0.size_z = 8 /\ CenterOf(d0) = <<0, 0, 0>>) =>
                           /\ CenterOf(l.head_data) = <<0, 0, 4>>
                           /\ EulerOf(l.head_data) = <<1, 0, 0>>
                    /\ pc[c] \in Composed =>
                           l.head_urdf = convert_data_to_urdf(l.head_generator,
                               [d0 EXCEPT !.x = want[1], !.y = want[2], !.z = want[3],
                                          !.roll = l.rotation[1],
                                          !.pitch = l.rotation[2],
                                          !.yaw = l.rotation[3]])

\* C1 witness: a call has written the description of a head sampled at the
\* origin on a handle of size_z 0.4, placed at (0, 0, 0.2), turned (pi/2, 0, 0).
C1_Witness ==
    /\ pc[1] = "done"
    /\ \E h0 \in returned[1].handle, d0 \in returned[1].head :
           h0.size_z = 8 /\ CenterOf(d0) = <<0, 0, 0>>
    /\ CenterOf(locals[1].head_data) = <<0, 0, 4>>
    /\ EulerOf(locals[1].head_data) = <<1, 0, 0>>
    /\ TheFile.content = locals[1].urdf

\* C2: sample_head_transformation returns the rotation (pi/2, 0, 0) and the
\* translation (0, 0, 0.5 * handle size_z) whatever the head is: two calls
\* whose handles have the same size_z hold the same pair.
C2_SamplerDeterministic ==
    /\ \A c \in Callers :
           pc[c] \in Placed =>
               \A h0 \in returned[c].handle :
                   /\ locals[c].rotation = <<1, 0, 0>>
                   /\ locals[c].transition[1] = 0
                   /\ locals[c].transition[2] = 0
                   /\ 2 * locals[c].transition[3] = h0.size_z
    /\ \A c, d \in Callers :
           (/\ pc[c] \in Placed
            /\ pc[d] \in Placed
            /\ \E hc \in returned[c].handle, hd \in returned[d].handle :
                   hc.size_z = hd.size_z) =>
               /\ locals[c].rotation = locals[d].rotation
               /\ locals[c].transition = locals[d].transition

\* C2 witness: two calls with handles of the same size_z and heads of different
\* sizes and centers hold the same rotation and translation.
C2_Witness ==
    /\ pc[1] \in Placed
    /\ pc[2] \in Placed
    /\ \E h1 \in returned[1].handle, h2 \in returned[2].handle :
           h1.size_z = h2.size_z
    /\ \E d1 \in returned[1].head, d2 \in returned[2].head :
           d1.size_z # d2.size_z /\ CenterOf(d1) # CenterOf(d2)
    /\ locals[1].rotation = locals[2].rotation
    /\ locals[1].transition = locals[2].transition

\* C3: transform_point returns R(roll,pitch,yaw) . point + translation; on the
\* origin it returns the translation, and under the identity rotation and the
\* zero translation it returns the point.
C3_TransformPoint ==
    probe.applied =>
        /\ probe.at_origin = probe.translation
        /\ probe.unrotated = probe.point
        /\ probe.result =
               VecAdd(MatVec(matrix3_from_euler(probe.rotation[1], probe.rotation[2],
                                                probe.rotation[3]), probe.point),
                      probe.translation)

\* C3 witness: the function applied for a point off the origin, a rotation
\* about all three axes and a translation along all three axes.
C3_Witness ==
    /\ probe.applied
    /\ probe.point = <<1, -1, 1>>
    /\ probe.rotation = <<1, 2, 3>>
    /\ probe.translation = <<3, -2, 5>>
    /\ probe.at_origin = <<3, -2, 5>>
    /\ probe.unrotated = <<1, -1, 1>>

\* The head's Part Data as generate leaves it, and the text composed from it.
PlacedHeadOf(c, d0) ==
    [d0 EXCEPT !.x = locals[c].center[1], !.y = locals[c].center[2],
               !.z = locals[c].center[3], !.roll = locals[c].rotation[1],
               !.pitch = locals[c].rotation[2], !.yaw = locals[c].rotation[3]]

\* C4: a call that has written, first or repeated, with the same name and
\* directory, leaves in the description file exactly the text composed from
\* its own sampled handle and head: nothing of an earlier call's text is kept.
C4_Overwrite ==
    \A c \in Callers :
        pc[c] = "done" =>
            \A h0 \in returned[c].handle, d0 \in returned[c].head :
                /\ TheFile.exists
                /\ TheFile.content =
                       ComposeUrdf(hammer[c], locals[c].handle_generator,
                                   locals[c].head_generator, h0, PlacedHeadOf(c, d0))

\* C4 witness: the second call of a caller has written the file.
C4_Witness ==
    /\ pc[1] = "done"
    /\ calls[1] = 1
    /\ TheFile.exists
    /\ TheFile.content = locals[1].urdf

\* C5: a call that fails before the description file is written (a part
\* generator, the pose, a conversion, the template, the open) has not created
\* or changed the description file in any of its steps, and no step removes a
\* mesh file that is on disk.
C5_FailureLeavesFile ==
    [][\A c \in Callers :
           (pc[c] \in BeforeOpen /\ pc'[c] # pc[c] /\ pc'[c] # "opened") =>
               /\ files' = files
               /\ meshes \subseteq meshes']_vars

\* C5 witness: a first call failed in the conversion of the head, after both
\* part generators wrote their meshes; the meshes are on disk and there is no
\* description file.
C5_Witness ==
    /\ pc[1] = "failed"
    /\ exc[1] = "KeyError@137"
    /\ calls[1] = 0
    /\ meshes = {<<OutDir, "handle">>, <<OutDir, "head">>}
    /\ ~TheFile.exists

\* C6: when the template cannot be read the constructor fails with no
\* attribute set, and a caller is in generate only with a constructed Hammer
\* that holds the template's text.
C6_ConstructorFails ==
    \A c \in Callers :
        /\ ~template_file.readable => pc[c] \in {"noobj", "ctor_failed"}
        /\ pc[c] = "ctor_failed" =>
               hammer[c] = NoObject /\ exc[c] = "IOError@72"
        /\ pc[c] \notin {"noobj", "ctor_failed"} =>
               /\ hammer[c].exists
               /\ hammer[c].template = template_file.text

\* C6 witness: a constructor has failed on an unreadable template.
C6_Witness ==
    /\ ~template_file.readable
    /\ pc[1] = "ctor_failed"
    /\ hammer[1] = NoObject

\* C7: a generate call on a Hammer whose handle or head generator list is
\* empty fails at the selection with IndexError, with no mesh and no
\* description file written by it, and a call past the selection holds
\* generators taken from the lists.
C7_EmptySelectionFails ==
    /\ [][\A c \in Callers :
              (/\ pc[c] = "idle"
               /\ pc'[c] # "idle"
               /\ (hammer[c].handle_generators = <<>>
                      \/ hammer[c].head_generators = <<>>)) =>
                  /\ pc'[c] = "failed"
                  /\ exc'[c] \in {"IndexError@112", "IndexError@113"}
                  /\ files' = files
                  /\ meshes' = meshes]_vars
    /\ [](\A c \in Callers :
              pc[c] \in (BeforeOpen \cup {"opened", "done"}) \ {"idle"} =>
                  /\ \E i \in 1 .. Len(hammer[c].handle_generators) :
                         locals[c].handle_generator = hammer[c].handle_generators[i]
                  /\ \E i \in 1 .. Len(hammer[c].head_generators) :
                         locals[c].head_generator = hammer[c].head_generators[i])

\* C7 witness: the first call on a Hammer with a handle generator and no head
\* generator failed at line 113; nothing is on disk.
C7_Witness ==
    /\ pc[1] = "failed"
    /\ exc[1] = "IndexError@113"
    /\ hammer[1].handle_generators # <<>>
    /\ hammer[1].head_generators = <<>>
    /\ calls[1] = 0
    /\ meshes = {}
    /\ ~TheFile.exists

AllDone == \A c \in Callers : pc[c] = "done"

\* C8 as claimed: when two concurrent calls have both written, the file holds
\* the text of one of them (the one that wrote last).
C8_LastWriterWins ==
    AllDone => \E c \in Callers : TheFile.content = locals[c].urdf

\* C8 amended: when two concurrent calls have both written, the file begins
\* with the whole text of one of them (the one that wrote last) and is either
\* that text or that text followed by the tail of the other call's longer text.
C8_LastWriterPrefix ==
    AllDone =>
        \E c, d \in Callers :
            /\ c # d
            /\ IsPrefix(locals[c].urdf, TheFile.content)
            /\ TheFile.content \in
                   {locals[c].urdf, Overlay(locals[d].urdf, locals[c].urdf)}

\* C8 witness: both calls have written; the file is the shorter text of the
\* call that wrote last followed by the tail of the other call's text.
C8_Witness ==
    /\ AllDone
    /\ \E c, d \in Callers :
           /\ c # d
           /\ Len(locals[d].urdf) > Len(locals[c].urdf)
           /\ TheFile.content = Overlay(locals[d].urdf, locals[c].urdf)
           /\ TheFile.content # locals[c].urdf
           /\ TheFile.content # locals[d].urdf

C10_Frame ==
    /\ [](\A c \in Callers :
              pc[c] \in Placed =>
                  \A h0 \in returned[c].handle, d0 \in returned[c].head :
                      /\ locals[c].handle_data = h0
                      /\ DOMAIN locals[c].head_data = DOMAIN d0
                      /\ \A k \in DOMAIN d0 \ PoseFields :
                             locals[c].head_data[k] = d0[k]
                      /\ pc[c] \in Composed =>
                             /\ locals[c].handle_urdf =
                                    convert_data_to_urdf(locals[c].handle_generator, h0)
                             /\ locals[c].head_urdf =
                                    convert_data_to_urdf(locals[c].head_generator,
                                                         locals[c].head_data))
    /\ [][\A c \in Callers : pc[c] # "noobj" => hammer'[c] = hammer[c]]_vars

\* C10 witness: a call composed the text of a handle returned off the origin
\* and turned, unchanged, and of a head whose pose it changed.
C10_Witness ==
    /\ pc[1] \in Composed
    /\ \E h0 \in returned[1].handle :
           /\ CenterOf(h0) # <<0, 0, 0>>
           /\ EulerOf(h0) # <<0, 0, 0>>
           /\ locals[1].handle_data = h0
    /\ \E d0 \in returned[1].head :
           /\ CenterOf(d0) # CenterOf(locals[1].head_data)
           /\ EulerOf(d0) # EulerOf(locals[1].head_data)
           /\ d0.size_z = locals[1].head_data.size_z
           /\ d0.name = locals[1].head_data.name

====
